---------------------------- MODULE Spec2Model ----------------------------
(***************************************************************************)
(* A model of the fractional-step time-advancement engine of PetIBM,       *)
(* class NavierStokesSolver<dim> (NavierStokesSolver.cpp / .h), and of the  *)
(* teardown of MeshBase (mesh.cpp).                                        *)
(*                                                                         *)
(* The engine is modelled as one sequential process.  Its position is      *)
(* (phase, pc): phase is the life-cycle state of the engine and pc is the  *)
(* index of the next statement of the handler that is running              *)
(* (initialize or stepTime).  Every PETSc call that the source guards with *)
(* CHKERRQ may return a non-zero error code, which the handler returns at  *)
(* once.  The Krylov solver is an external collaborator: a solve writes an *)
(* arbitrary solution vector and an arbitrary convergence reason.          *)
(*                                                                         *)
(* Vectors are functions over a small index set, matrices are functions    *)
(* row -> column -> entry, entries are integers.                           *)
(***************************************************************************)
EXTENDS Integers, Sequences, FiniteSets, TLC

(***************************************************************************)
(* Bounds of the model.                                                    *)
(***************************************************************************)
\* largest start step enumerated (simParams->startStep ranges over -1..MaxStart)
MaxStart == 1
\* largest number of steps enumerated (simParams->nt ranges over -1..MaxNt)
MaxNt == 2
\* largest save interval enumerated (simParams->nsave ranges over 1..MaxNsave)
MaxNsave == 2
\* entries of vectors and matrices drawn by the environment are in -MaxVal..MaxVal
MaxVal == 1
\* KSPConvergedReason ranges over -MaxReason..MaxReason
MaxReason == 1
\* PetscErrorCode of a failing call ranges over 1..MaxErr
MaxErr == 1
\* countNumNonZeros: column lists of length 0..MaxCols
MaxCols == 3
\* countNumNonZeros: column indices and row bounds are in 0..MaxIdx
MaxIdx == 2
\* number of processes of the parallel job
NumProcs == 2

(***************************************************************************)
(* Index sets: the packed flux vector has two entries, lambda has one.     *)
(***************************************************************************)
FluxIdx == {1, 2}
LambdaIdx == {1}

Vals == (0 - MaxVal)..MaxVal
Reasons == (0 - MaxReason)..MaxReason
ErrCodes == 0..MaxErr
Procs == 1..NumProcs

VecQ(S) == [FluxIdx -> S]
VecL(S) == [LambdaIdx -> S]
ZeroQ == [i \in FluxIdx |-> 0]
ZeroL == [i \in LambdaIdx |-> 0]

(***************************************************************************)
(* Linear algebra of the external engine, as the calls the source makes.   *)
(***************************************************************************)
RECURSIVE SumOver(_, _)
SumOver(f, S) ==
  IF S = {} THEN 0
  ELSE LET j == CHOOSE k \in S : TRUE
       IN  f[j] + SumOver(f, S \ {j})

\* MatMult(M, x, y): y = M x
MatMult(M, x) ==
  [i \in DOMAIN M |-> SumOver([j \in DOMAIN x |-> M[i][j] * x[j]], DOMAIN x)]

\* MatMultAdd(M, x, y, z): z = y + M x
MatMultAdd(M, x, y) ==
  [i \in DOMAIN M |-> y[i] + MatMult(M, x)[i]]

\* VecScale(x, a): x = a x
\* mutant: the scaled values are not stored back
VecScaleDropped(x, a) == x

VecScale(x, a) == [i \in DOMAIN x |-> a * x[i]]

\* VecWAXPY(w, a, x, y): w = a x + y
VecWAXPY(a, x, y) == [i \in DOMAIN x |-> a * x[i] + y[i]]

\* VecPointwiseMult(w, x, y): w = x .* y
VecPointwiseMult(x, y) == [i \in DOMAIN x |-> x[i] * y[i]]

\* MatMatMult(M, N, MAT_INITIAL_MATRIX, ..., &C): C = M N
MatMatMult(M, N) ==
  [i \in DOMAIN M |->
    [k \in DOMAIN N[CHOOSE j \in DOMAIN N : TRUE] |->
      SumOver([j \in DOMAIN N |-> M[i][j] * N[j][k]], DOMAIN N)]]


\* C's remainder (truncation toward zero), as timeStep % nsave computes it
CRem(a, b) == IF a >= 0 THEN a % b ELSE 0 - ((0 - a) % b)

(***************************************************************************)
(* The handles the engine owns (NavierStokesSolver.h), by PETSc type.      *)
(***************************************************************************)
DMHandles == {"pda", "uda", "vda", "wda", "qPack", "lambdaPack"}
VecHandles == {"qxLocal", "qyLocal", "qzLocal", "q", "qStar", "H", "rn",
               "bc1", "rhs1", "r2", "rhs2", "temp", "lambda", "RInv", "MHat",
               "BN", "pMapping", "uMapping", "vMapping", "wMapping"}
MatHandles == {"A", "QT", "BNQ", "QTBNQ"}
KSPHandles == {"ksp1", "ksp2"}
Handles == DMHandles \cup VecHandles \cup MatHandles \cup KSPHandles

\* the operators and diagonal vectors assembled by the Operator Builder
Operators == {"A", "QT", "BNQ", "QTBNQ", "MHat", "RInv", "BN"}

\* handles that exist only in three dimensions
Only3D == {"wda", "qzLocal", "wMapping"}

\* the members the constructor sets to PETSC_NULL: every handle but lambda
NulledByConstructor == Handles \ {"lambda"}

(***************************************************************************)
(* The statements of initialize (with initializeCommon inlined) and of     *)
(* stepTime, in source order.  pc indexes these sequences.                 *)
(***************************************************************************)
\* mutant: the solver contexts are created before QTBNQ is computed
InitializeBodyKSPsEarly ==
  << "push:initialize", "createDMs",
     "createVecs", "initializeMeshSpacings", "initializeFluxes",
     "initializeLambda", "updateBoundaryGhosts",
     "createLocalToGlobalMappingsFluxes", "createLocalToGlobalMappingsLambda",
     "generateDiagonalMatrices", "generateA", "generateBNQ", "createKSPs",
     "generateQTBNQ", "setNullSpace",
     "pop", "printSimulationInfo", "writeGrid", "return" >>

\* mutant: A is generated a second time after the solvers are created
InitializeBodyTwice ==
  << "push:initialize", "createDMs",
     "createVecs", "initializeMeshSpacings", "initializeFluxes",
     "initializeLambda", "updateBoundaryGhosts",
     "createLocalToGlobalMappingsFluxes", "createLocalToGlobalMappingsLambda",
     "generateDiagonalMatrices", "generateA", "generateBNQ", "generateQTBNQ",
     "createKSPs", "generateA", "setNullSpace",
     "pop", "printSimulationInfo", "writeGrid", "return" >>

InitializeBody ==
  << "push:initialize", "createDMs",
     "createVecs", "initializeMeshSpacings", "initializeFluxes",
     "initializeLambda", "updateBoundaryGhosts",
     "createLocalToGlobalMappingsFluxes", "createLocalToGlobalMappingsLambda",
     "generateDiagonalMatrices", "generateA", "generateBNQ", "generateQTBNQ",
     "createKSPs", "setNullSpace",
     "pop", "printSimulationInfo", "writeGrid", "return" >>

\* mutant: the right-hand side of the second system is assembled before r2
StepTimeBodySwapped ==
  << "push:RHSVelocity", "calculateExplicitTerms", "updateBoundaryGhosts",
     "generateBC1", "generateRHS1", "pop", "solveIntermediateVelocity",
     "push:RHSPoisson", "generateRHS2", "generateR2", "pop",
     "solvePoissonSystem",
     "push:projectionStep", "projectionStep", "pop", "timeStep++" >>

StepTimeBody ==
  << "push:RHSVelocity", "calculateExplicitTerms", "updateBoundaryGhosts",
     "generateBC1", "generateRHS1", "pop", "solveIntermediateVelocity",
     "push:RHSPoisson", "generateR2", "generateRHS2", "pop",
     "solvePoissonSystem",
     "push:projectionStep", "projectionStep", "pop", "timeStep++" >>

\* the ten stages of a step, as the time-advancement engine names them
StageNames == {"calculateExplicitTerms", "updateBoundaryGhosts", "generateBC1",
               "generateRHS1", "solveIntermediateVelocity", "generateR2",
               "generateRHS2", "solvePoissonSystem", "projectionStep",
               "timeStep++"}

\* the handles each statement of initialize creates
Creates(stmt, d) ==
  LET all ==
    CASE stmt = "createDMs" -> DMHandles
      [] stmt = "createVecs" ->
           {"qxLocal", "qyLocal", "qzLocal", "q", "qStar", "H", "rn", "bc1",
            "rhs1", "r2", "rhs2", "temp", "lambda", "RInv", "MHat", "BN"}
      [] stmt = "createLocalToGlobalMappingsFluxes" ->
           {"uMapping", "vMapping", "wMapping"}
      [] stmt = "createLocalToGlobalMappingsLambda" -> {"pMapping"}
      [] stmt = "generateA" -> {"A"}
      [] stmt = "generateBNQ" -> {"QT", "BNQ"}
      [] stmt = "generateQTBNQ" -> {"QTBNQ"}
      [] stmt = "createKSPs" -> {"ksp1", "ksp2"}
      [] OTHER -> {}
  IN IF d = 3 THEN all ELSE all \ Only3D

\* the operators each statement of initialize assembles
Assembles(stmt) ==
  CASE stmt = "generateDiagonalMatrices" -> {"MHat", "RInv", "BN"}
    [] stmt = "generateA" -> {"A"}
    [] stmt = "generateBNQ" -> {"QT", "BNQ"}
    [] stmt = "generateQTBNQ" -> {"QTBNQ"}
    [] OTHER -> {}

(***************************************************************************)
(* State.                                                                  *)
(***************************************************************************)
VARIABLES
  phase,      \* Uninitialized, Initializing, Initialized, StepInProgress,
              \* Finalized, Exited (exit(0) was called), Aborted (a handler
              \* returned an error code)
  pc,         \* index of the next statement of the running handler
  ret,        \* PetscErrorCode returned by the last handler that returned
  exitStatus, \* argument of exit(), or -1 while the process has not exited
  simParams,  \* [startStep, nt, nsave]
  dim,        \* template parameter: 2 or 3
  variant,    \* "plain" (NavierStokesSolver) or "ib" (a derived solver)
  timeStep,   \* the step counter
  handles,    \* handle -> "null" | "live" | "garbage"
  created,    \* handle -> number of times it was created
  destroyed,  \* handle -> number of times it was destroyed
  asm,        \* operator -> number of times it was assembled
  ksp1, ksp2, \* solver contexts: [operator, nullspace, reason]
  logStack,   \* PETSc log stages pushed and not yet popped
  A, QT, BNQ, QTBNQ, MHat, RInv, BN,
  q, qStar, lambda,
  H, rn, bc1, rhs1, r2, rhs2, temp,
  diag,       \* what PetscPrintf wrote on divergence, or NoDiag
  obs,        \* the last observer call and what it returned
  trace,      \* stages executed so far by the running stepTime
  stepsDone,  \* number of calls of stepTime that returned 0
  qPre,       \* q when the running stepTime was entered
  r2gen,      \* r2 as generateR2 left it in the running stepTime
  initTrace,  \* the statements of initialize that have succeeded, in order
  cols, rowStart, rowEnd, d_nnz, o_nnz, \* countNumNonZeros: arguments, results
  nnzDone,    \* countNumNonZeros has been called and has returned
  rankState,  \* per process: "idle", "running", "inSolve" (inside KSPSolve),
              \* "exited" (exit(0)), "aborted" (error returned), "done"
  rankPc,     \* per process: index of the next statement of stepTime
  rankStep,   \* per process: its copy of timeStep
  entered,    \* per process: number of calls of KSPSolve it has made
  left,       \* per process: number of calls of KSPSolve that returned 0
  verdicts,   \* per process: what it did after each solve it came out of
  outcomes,   \* the convergence reasons of the collective solves completed
  meshDim,    \* MeshBase::dim
  meshDim0,   \* MeshBase::dim when destroy() or the destructor was entered
  da,         \* MeshBase::da[0..4]: "null" | "live"
  UPack,      \* MeshBase::UPack: "null" | "live"
  meshFn,     \* "none", or the member function running: "destroy", "~MeshBase"
  meshPc,     \* its next statement
  meshF,      \* its loop variable f
  meshRet,    \* what destroy() returned: 0 or an error code; -1 before
  meshGone    \* the destructor has run

cfgVars == <<simParams, dim, variant>>
ctlVars == <<phase, pc, ret, exitStatus, logStack>>
resVars == <<handles, created, destroyed, asm>>
kspVars == <<ksp1, ksp2>>
opVars == <<A, QT, BNQ, QTBNQ, MHat, RInv, BN>>
flowVars == <<q, qStar, lambda>>
rhsVars == <<H, rn, bc1, rhs1, r2, rhs2, temp>>
histVars == <<trace, stepsDone, qPre, r2gen, initTrace>>
nnzVars == <<cols, rowStart, rowEnd, d_nnz, o_nnz, nnzDone>>
mpiVars == <<rankState, rankPc, rankStep, entered, left, verdicts, outcomes>>
\* everything the engine owns, i.e. all but the observers' record
engineVars == <<cfgVars, ctlVars, resVars, kspVars, opVars, flowVars, rhsVars,
                timeStep, diag, histVars>>
\* what the engine's handlers never touch
meshVars == <<meshDim, meshDim0, da, UPack, meshFn, meshPc, meshF, meshRet,
              meshGone>>
sideVars == <<nnzVars, mpiVars, meshVars>>
vars == <<engineVars, obs, sideVars>>

NoDiag == [system |-> "none"]
NoObs == [op |-> "none"]
NoKsp == [operator |-> "none", nullspace |-> FALSE, reason |-> 0]
ZeroQQ == [i \in FluxIdx |-> ZeroQ]
ZeroLQ == [i \in LambdaIdx |-> ZeroQ]
ZeroQL == [i \in FluxIdx |-> ZeroL]
ZeroLL == [i \in LambdaIdx |-> ZeroL]

(***************************************************************************)
(* The constructor: stores the parameters, sets timeStep to startStep and  *)
(* every handle except lambda to PETSC_NULL.  lambda is left               *)
(* uninitialized: it holds PETSC_NULL or any other bit pattern.            *)
(***************************************************************************)
Constructed(sp, d, v, lam) ==
  /\ simParams = sp
  /\ dim = d
  /\ variant = v
  /\ timeStep = sp.startStep
  /\ handles = [h \in Handles |-> IF h \in NulledByConstructor THEN "null" ELSE lam]
  /\ created = [h \in Handles |-> 0]
  /\ destroyed = [h \in Handles |-> 0]
  /\ asm = [o \in Operators |-> 0]
  /\ ksp1 = NoKsp /\ ksp2 = NoKsp
  /\ phase = "Uninitialized" /\ pc = 1 /\ ret = 0 /\ exitStatus = -1
  /\ logStack = << >>
  /\ A = ZeroQQ /\ QT = ZeroLQ /\ BNQ = ZeroQL /\ QTBNQ = ZeroLL
  /\ MHat = ZeroQ /\ RInv = ZeroQ /\ BN = ZeroQ
  /\ q = ZeroQ /\ qStar = ZeroQ /\ lambda = ZeroL
  /\ H = ZeroQ /\ rn = ZeroQ /\ bc1 = ZeroQ /\ rhs1 = ZeroQ
  /\ r2 = ZeroL /\ rhs2 = ZeroL /\ temp = ZeroQ
  /\ diag = NoDiag /\ obs = NoObs
  /\ trace = << >> /\ stepsDone = 0 /\ qPre = ZeroQ /\ r2gen = ZeroL
  /\ initTrace = << >>

NnzIdle ==
  /\ cols = << >> /\ rowStart = 0 /\ rowEnd = 0 /\ d_nnz = 0 /\ o_nnz = 0
  /\ nnzDone = FALSE

\* a mesh of dimension d as its constructor leaves it: one DM per velocity
\* component in da[0..d-1], two more in da[3] and da[4], and the composite
\* UPack
MeshConstructed(d) ==
  /\ meshDim = d /\ meshDim0 = d
  /\ da = [f \in 0..4 |-> IF f < d \/ f >= 3 THEN "live" ELSE "null"]
  /\ UPack = "live"
  /\ meshFn = "none" /\ meshPc = "idle" /\ meshF = 0 /\ meshRet = -1
  /\ meshGone = FALSE

\* the processes of the job before any of them has been started
MpiIdle ==
  /\ rankState = [p \in Procs |-> "idle"]
  /\ rankPc = [p \in Procs |-> 1]
  /\ rankStep = [p \in Procs |-> 0]
  /\ entered = [p \in Procs |-> 0]
  /\ left = [p \in Procs |-> 0]
  /\ verdicts = [p \in Procs |-> << >>]
  /\ outcomes = << >>

SimParamsSet ==
  [startStep : -1..MaxStart, nt : -1..MaxNt, nsave : 1..MaxNsave]

Init ==
  /\ \E sp \in SimParamsSet, d \in {2, 3}, lam \in {"null", "garbage"} :
       Constructed(sp, d, "plain", lam)
  /\ NnzIdle
  /\ MpiIdle
  /\ MeshConstructed(2)

(***************************************************************************)
(* Control flow shared by the handlers.                                    *)
(***************************************************************************)
Body == IF phase = "Initializing" THEN InitializeBody ELSE StepTimeBody
Running == phase \in {"Initializing", "StepInProgress"}
Stmt == IF Running THEN Body[pc] ELSE "idle"
AtInit(stmt) == phase = "Initializing" /\ Stmt = stmt
AtStep(stmt) == phase = "StepInProgress" /\ Stmt = stmt

\* CHKERRQ(ierr) with ierr = 0: go on with the next statement
Proceed ==
  /\ pc' = pc + 1
  /\ UNCHANGED <<phase, ret, exitStatus>>

\* mutant: the error code is recorded but the handler goes on
ReturnErrorContinue(ierr) ==
  /\ pc' = pc + 1
  /\ ret' = ierr
  /\ UNCHANGED <<phase, exitStatus>>

\* CHKERRQ(ierr) with ierr # 0: the handler returns ierr to its caller, which
\* propagates it; nothing of the run executes after that
ReturnError(ierr) ==
  /\ phase' = "Aborted"
  /\ ret' = ierr
  /\ UNCHANGED <<pc, exitStatus>>

\* mutant: the process ends with a failure status
ExitProcessFailure ==
  /\ phase' = "Exited"
  /\ exitStatus' = 1
  /\ UNCHANGED <<pc, ret>>

\* exit(0): the process ends inside the handler
ExitProcess ==
  /\ phase' = "Exited"
  /\ exitStatus' = 0
  /\ UNCHANGED <<pc, ret>>

PushStmts == {"push:initialize", "push:RHSVelocity", "push:RHSPoisson",
              "push:projectionStep"}

PetscLogStagePush(ierr) ==
  /\ Running /\ Stmt \in PushStmts
  /\ IF ierr = 0
       THEN Proceed /\ logStack' = Append(logStack, Stmt)
       ELSE ReturnError(ierr) /\ UNCHANGED logStack
  /\ UNCHANGED <<cfgVars, resVars, kspVars, opVars, flowVars, rhsVars,
                 timeStep, diag, histVars, obs, sideVars>>

PetscLogStagePop(ierr) ==
  /\ Running /\ Stmt = "pop"
  /\ IF ierr = 0
       THEN Proceed /\ logStack' = SubSeq(logStack, 1, Len(logStack) - 1)
       ELSE ReturnError(ierr) /\ UNCHANGED logStack
  /\ UNCHANGED <<cfgVars, resVars, kspVars, opVars, flowVars, rhsVars,
                 timeStep, diag, histVars, obs, sideVars>>

(***************************************************************************)
(* initialize and initializeCommon.                                        *)
(***************************************************************************)
\* mutant: the driver calls initialize again between two steps
InitializeReentered ==
  /\ phase \in {"Uninitialized", "Initialized"}
  /\ phase' = "Initializing" /\ pc' = 1
  /\ UNCHANGED <<ret, exitStatus, logStack>>
  /\ UNCHANGED <<cfgVars, resVars, kspVars, opVars, flowVars, rhsVars,
                 timeStep, diag, histVars, obs, sideVars>>

\* the driver calls initialize once, on the freshly constructed engine
Initialize ==
  /\ phase = "Uninitialized"
  /\ phase' = "Initializing" /\ pc' = 1
  /\ UNCHANGED <<ret, exitStatus, logStack>>
  /\ UNCHANGED <<cfgVars, resVars, kspVars, opVars, flowVars, rhsVars,
                 timeStep, diag, histVars, obs, sideVars>>

\* handles and assembly counts after statement stmt has succeeded
Build(stmt) ==
  /\ handles' = [h \in Handles |->
                   IF h \in Creates(stmt, dim) THEN "live" ELSE handles[h]]
  /\ created' = [h \in Handles |->
                   IF h \in Creates(stmt, dim) THEN created[h] + 1 ELSE created[h]]
  /\ asm' = [o \in Operators |->
                   IF o \in Assembles(stmt) THEN asm[o] + 1 ELSE asm[o]]
  /\ UNCHANGED destroyed

\* a statement of initialize: on success it builds what it builds
InitStmt(stmt, ierr) ==
  /\ AtInit(stmt)
  /\ IF ierr = 0
       THEN Proceed /\ Build(stmt) /\ initTrace' = Append(initTrace, stmt)
       ELSE ReturnError(ierr) /\ UNCHANGED <<resVars, initTrace>>
  /\ UNCHANGED <<logStack, cfgVars, timeStep, diag, trace, stepsDone, qPre,
                 r2gen, obs, sideVars>>

CreateDMs(ierr) ==
  /\ InitStmt("createDMs", ierr)
  /\ UNCHANGED <<kspVars, opVars, flowVars, rhsVars>>

CreateVecs(ierr) ==
  /\ InitStmt("createVecs", ierr)
  /\ UNCHANGED <<kspVars, opVars, flowVars, rhsVars>>

\* void: it cannot fail
InitializeMeshSpacings ==
  /\ InitStmt("initializeMeshSpacings", 0)
  /\ UNCHANGED <<kspVars, opVars, flowVars, rhsVars>>

\* q is populated with the initial (or restart) fluxes q0
InitializeFluxes(ierr, q0) ==
  /\ InitStmt("initializeFluxes", ierr)
  /\ q' = IF ierr = 0 THEN q0 ELSE q
  /\ UNCHANGED <<kspVars, opVars, qStar, lambda, rhsVars>>

\* lambda is populated with the initial (or restart) values l0
InitializeLambda(ierr, l0) ==
  /\ InitStmt("initializeLambda", ierr)
  /\ lambda' = IF ierr = 0 THEN l0 ELSE lambda
  /\ UNCHANGED <<kspVars, opVars, q, qStar, rhsVars>>

\* ghost values at the domain boundaries live in the local flux vectors,
\* whose entries are not modelled
UpdateBoundaryGhostsInit(ierr) ==
  /\ InitStmt("updateBoundaryGhosts", ierr)
  /\ UNCHANGED <<kspVars, opVars, flowVars, rhsVars>>

CreateLocalToGlobalMappingsFluxes(ierr) ==
  /\ InitStmt("createLocalToGlobalMappingsFluxes", ierr)
  /\ UNCHANGED <<kspVars, opVars, flowVars, rhsVars>>

CreateLocalToGlobalMappingsLambda(ierr) ==
  /\ InitStmt("createLocalToGlobalMappingsLambda", ierr)
  /\ UNCHANGED <<kspVars, opVars, flowVars, rhsVars>>

\* the diagonal operators are closed-form functions of the grid metrics and
\* the time-step size: the environment supplies them
GenerateDiagonalMatrices(ierr, mh, ri, bn) ==
  /\ InitStmt("generateDiagonalMatrices", ierr)
  /\ IF ierr = 0
       THEN MHat' = mh /\ RInv' = ri /\ BN' = bn
       ELSE UNCHANGED <<MHat, RInv, BN>>
  /\ UNCHANGED <<kspVars, A, QT, BNQ, QTBNQ, flowVars, rhsVars>>

GenerateA(ierr, a) ==
  /\ InitStmt("generateA", ierr)
  /\ A' = IF ierr = 0 THEN a ELSE A
  /\ UNCHANGED <<kspVars, QT, BNQ, QTBNQ, MHat, RInv, BN, flowVars, rhsVars>>

\* QT is the divergence (and interpolation) operator qt; BNQ = BN QT^T
GenerateBNQ(ierr, qt) ==
  /\ InitStmt("generateBNQ", ierr)
  /\ IF ierr = 0
       THEN /\ QT' = qt
            /\ BNQ' = [i \in FluxIdx |-> [k \in LambdaIdx |-> BN[i] * qt[k][i]]]
       ELSE UNCHANGED <<QT, BNQ>>
  /\ UNCHANGED <<kspVars, A, QTBNQ, MHat, RInv, BN, flowVars, rhsVars>>

\* PetscLogEventRegister, PetscLogEventBegin, MatMatMult, PetscLogEventEnd:
\* call number failAt fails when ierr # 0
GenerateQTBNQ(ierr, failAt) ==
  /\ AtInit("generateQTBNQ")
  /\ IF ierr = 0 \/ failAt > 3
       THEN QTBNQ' = MatMatMult(QT, BNQ) /\ Build("generateQTBNQ")
       ELSE UNCHANGED <<QTBNQ, resVars>>
  /\ IF ierr = 0
       THEN Proceed /\ initTrace' = Append(initTrace, "generateQTBNQ")
       ELSE ReturnError(ierr) /\ UNCHANGED initTrace
  /\ UNCHANGED <<logStack, cfgVars, timeStep, diag, trace, stepsDone, qPre,
                 r2gen, obs, sideVars>>
  /\ UNCHANGED <<kspVars, A, QT, BNQ, MHat, RInv, BN, flowVars, rhsVars>>

\* ksp1 solves with A, ksp2 with QTBNQ; pc2 is ksp2's own preconditioner
CreateKSPs(ierr) ==
  /\ InitStmt("createKSPs", ierr)
  /\ IF ierr = 0
       THEN /\ ksp1' = [operator |-> "A", nullspace |-> FALSE, reason |-> 0]
            /\ ksp2' = [operator |-> "QTBNQ", nullspace |-> FALSE, reason |-> 0]
       ELSE UNCHANGED kspVars
  /\ UNCHANGED <<opVars, flowVars, rhsVars>>

\* the null space of QTBNQ is attached to the solver of the second system
SetNullSpace(ierr) ==
  /\ InitStmt("setNullSpace", ierr)
  /\ ksp2' = IF ierr = 0 THEN [ksp2 EXCEPT !.nullspace = TRUE] ELSE ksp2
  /\ UNCHANGED <<ksp1, opVars, flowVars, rhsVars>>

PrintSimulationInfo(ierr) ==
  /\ InitStmt("printSimulationInfo", ierr)
  /\ UNCHANGED <<kspVars, opVars, flowVars, rhsVars>>

WriteGrid(ierr) ==
  /\ InitStmt("writeGrid", ierr)
  /\ UNCHANGED <<kspVars, opVars, flowVars, rhsVars>>

\* return 0
InitializeReturn ==
  /\ AtInit("return")
  /\ phase' = "Initialized" /\ ret' = 0 /\ pc' = 1
  /\ UNCHANGED <<exitStatus, logStack>>
  /\ UNCHANGED <<cfgVars, resVars, kspVars, opVars, flowVars, rhsVars,
                 timeStep, diag, histVars, obs, sideVars>>

(***************************************************************************)
(* The observers.                                                          *)
(***************************************************************************)
\* mutant: the test is made on the index of the next step
savePointNext == CRem(timeStep + 1, simParams.nsave) = 0

\* (timeStep % simParams->nsave == 0)? PETSC_TRUE : PETSC_FALSE
savePoint == CRem(timeStep, simParams.nsave) = 0

\* mutant: > for >=
finishedStrict == timeStep > simParams.startStep + simParams.nt

\* (timeStep >= simParams->startStep+simParams->nt)? PETSC_TRUE : PETSC_FALSE
finished == timeStep >= simParams.startStep + simParams.nt

\* the driver evaluates the observers between steps
CallSavePoint ==
  /\ phase = "Initialized"
  /\ obs' = [op |-> "savePoint", result |-> savePoint]
  /\ UNCHANGED <<engineVars, sideVars>>

CallFinished ==
  /\ phase = "Initialized"
  /\ obs' = [op |-> "finished", result |-> finished]
  /\ UNCHANGED <<engineVars, sideVars>>

(***************************************************************************)
(* stepTime.                                                               *)
(***************************************************************************)
\* the driver calls stepTime while finished() is false; what the observers
\* returned before has been consumed
StepTime ==
  /\ phase = "Initialized"
  /\ ~finished
  /\ phase' = "StepInProgress" /\ pc' = 1
  /\ trace' = << >> /\ qPre' = q
  /\ obs' = NoObs
  /\ UNCHANGED <<ret, exitStatus, logStack, stepsDone, r2gen, initTrace>>
  /\ UNCHANGED <<cfgVars, resVars, kspVars, opVars, flowVars, rhsVars,
                 timeStep, diag, sideVars>>

\* what every stage of stepTime leaves alone, and the record of its execution
Stage(stmt) ==
  /\ AtStep(stmt)
  /\ trace' = Append(trace, stmt)
  /\ UNCHANGED <<cfgVars, resVars, opVars, timeStep, stepsDone, qPre,
                 initTrace, obs, sideVars>>

Outcome(ierr) == IF ierr = 0 THEN Proceed ELSE ReturnError(ierr)

\* the explicit convective and diffusive terms h are evaluated from the
\* current q into H, and rn = q + h (time-step size 1)
CalculateExplicitTerms(ierr, h) ==
  /\ Stage("calculateExplicitTerms")
  /\ Outcome(ierr)
  /\ IF ierr = 0
       THEN H' = h /\ rn' = VecWAXPY(1, h, q)
       ELSE UNCHANGED <<H, rn>>
  /\ UNCHANGED <<logStack, kspVars, flowVars, bc1, rhs1, r2, rhs2, temp, diag,
                 r2gen>>

UpdateBoundaryGhosts(ierr) ==
  /\ Stage("updateBoundaryGhosts")
  /\ Outcome(ierr)
  /\ UNCHANGED <<logStack, kspVars, flowVars, rhsVars, diag, r2gen>>

\* bc1 is assembled from the boundary conditions: the environment supplies b
GenerateBC1(ierr, b) ==
  /\ Stage("generateBC1")
  /\ Outcome(ierr)
  /\ bc1' = IF ierr = 0 THEN b ELSE bc1
  /\ UNCHANGED <<logStack, kspVars, flowVars, H, rn, rhs1, r2, rhs2, temp,
                 diag, r2gen>>

\* VecWAXPY(rhs1, 1.0, rn, bc1); VecPointwiseMult(rhs1, MHat, rhs1):
\* call number failAt fails when ierr # 0
GenerateRHS1(ierr, failAt) ==
  /\ Stage("generateRHS1")
  /\ Outcome(ierr)
  /\ rhs1' = IF ierr = 0 THEN VecPointwiseMult(MHat, VecWAXPY(1, rn, bc1))
             ELSE IF failAt = 2 THEN VecWAXPY(1, rn, bc1)
             ELSE rhs1
  /\ UNCHANGED <<logStack, kspVars, flowVars, H, rn, bc1, r2, rhs2, temp,
                 diag, r2gen>>

\* mutant: the reason is not passed to the format
DiagnosticNoReason(system, reason) == [system |-> system, reason |-> 0]

\* PetscPrintf(PETSC_COMM_WORLD, "<system> solve diverged due to reason: %d\n",
\* reason)
Diagnostic(system, reason) == [system |-> system, reason |-> reason]

\* mutant: the diagnostic is printed but the process does not exit
SolveControlNoExit(ierr, failAt, reason, stage, system) ==
  /\ failAt = 5 => reason < 0
  /\ logStack' = IF ierr # 0 /\ failAt \in {2, 3}
                   THEN Append(logStack, stage) ELSE logStack
  /\ IF ierr # 0
       THEN ReturnError(ierr) /\ UNCHANGED diag
       ELSE IF reason < 0
              THEN diag' = [system |-> system, reason |-> reason] /\ Proceed
              ELSE Proceed /\ UNCHANGED diag

\* The body shared by solveIntermediateVelocity and solvePoissonSystem:
\*   1 PetscLogStagePush  2 KSPSolve  3 PetscLogStagePop
\*   4 KSPGetConvergedReason  5 PetscPrintf (only when reason < 0), exit(0).
\* KSPSolve writes the solution and records the convergence reason in the
\* solver context; call number failAt fails when ierr # 0.
SolveControl(ierr, failAt, reason, stage, system) ==
  /\ failAt = 5 => reason < 0
  /\ logStack' = IF ierr # 0 /\ failAt \in {2, 3}
                   THEN Append(logStack, stage) ELSE logStack
  /\ IF ierr # 0
       THEN ReturnError(ierr) /\ UNCHANGED diag
       ELSE IF reason < 0
              THEN diag' = Diagnostic(system, reason) /\ ExitProcess
              ELSE Proceed /\ UNCHANGED diag

\* whether KSPSolve has run and succeeded
Solved(ierr, failAt) == ierr = 0 \/ failAt > 2

\* mutant: the solution of the first system is written into q
SolveIntermediateVelocityIntoQ(ierr, failAt, x, reason) ==
  /\ Stage("solveIntermediateVelocity")
  /\ SolveControl(ierr, failAt, reason, "solveVelocity", "Velocity")
  /\ IF Solved(ierr, failAt)
       THEN q' = x /\ ksp1' = [ksp1 EXCEPT !.reason = reason]
       ELSE UNCHANGED <<q, ksp1>>
  /\ UNCHANGED <<ksp2, qStar, lambda, rhsVars, r2gen>>

SolveIntermediateVelocity(ierr, failAt, x, reason) ==
  /\ Stage("solveIntermediateVelocity")
  /\ SolveControl(ierr, failAt, reason, "solveVelocity", "Velocity")
  /\ IF Solved(ierr, failAt)
       THEN qStar' = x /\ ksp1' = [ksp1 EXCEPT !.reason = reason]
       ELSE UNCHANGED <<qStar, ksp1>>
  /\ UNCHANGED <<ksp2, q, lambda, rhsVars, r2gen>>

\* assemble r2: zero for the plain solver, the boundary residual r for the
\* immersed-boundary solvers
GenerateR2(ierr, r) ==
  /\ Stage("generateR2")
  /\ Outcome(ierr)
  /\ variant = "plain" => r = ZeroL
  /\ IF ierr = 0
       THEN r2' = r /\ r2gen' = r
       ELSE UNCHANGED <<r2, r2gen>>
  /\ UNCHANGED <<logStack, kspVars, flowVars, H, rn, bc1, rhs1, rhs2, temp,
                 diag>>

\* mutant: QT qStar is stored without adding the scaled r2
generateRHS2NoAdd(qt, qs, r) ==
  [r2 |-> VecScale(r, -1), rhs2 |-> MatMult(qt, qs)]

\* VecScale(r2, -1.0); MatMultAdd(QT, qStar, r2, rhs2): what the two calls
\* leave in r2 and rhs2
generateRHS2(qt, qs, r) ==
  [r2 |-> VecScale(r, -1), rhs2 |-> MatMultAdd(qt, qs, VecScale(r, -1))]

\* call number failAt fails when ierr # 0
GenerateRHS2(ierr, failAt) ==
  /\ Stage("generateRHS2")
  /\ Outcome(ierr)
  /\ r2' = IF ierr = 0 \/ failAt > 1 THEN generateRHS2(QT, qStar, r2).r2 ELSE r2
  /\ rhs2' = IF ierr = 0 THEN generateRHS2(QT, qStar, r2).rhs2 ELSE rhs2
  /\ UNCHANGED <<logStack, kspVars, flowVars, H, rn, bc1, rhs1, temp, diag,
                 r2gen>>

SolvePoissonSystem(ierr, failAt, x, reason) ==
  /\ Stage("solvePoissonSystem")
  /\ SolveControl(ierr, failAt, reason, "solvePoisson", "Poisson")
  /\ IF Solved(ierr, failAt)
       THEN lambda' = x /\ ksp2' = [ksp2 EXCEPT !.reason = reason]
       ELSE UNCHANGED <<lambda, ksp2>>
  /\ UNCHANGED <<ksp1, q, qStar, rhsVars, r2gen>>

\* mutant: the correction is added
ProjectionPlus(bnq, lam, qs) == VecWAXPY(1, MatMult(bnq, lam), qs)

\* q = q^* - B^N Q lambda, through temp = BNQ lambda
Projection(bnq, lam, qs) == VecWAXPY(-1, MatMult(bnq, lam), qs)

\* MatMult(BNQ, lambda, temp); VecWAXPY(q, -1.0, temp, qStar):
\* call number failAt fails when ierr # 0
ProjectionStep(ierr, failAt) ==
  /\ Stage("projectionStep")
  /\ Outcome(ierr)
  /\ temp' = IF ierr = 0 \/ failAt > 1 THEN MatMult(BNQ, lambda) ELSE temp
  /\ q' = IF ierr = 0 THEN Projection(BNQ, lambda, qStar) ELSE q
  /\ UNCHANGED <<logStack, kspVars, qStar, lambda, H, rn, bc1, rhs1, r2, rhs2,
                 diag, r2gen>>

\* mutant: the step returns without advancing the counter
StepTimeReturnNoIncrement ==
  /\ AtStep("timeStep++")
  /\ timeStep' = timeStep
  /\ stepsDone' = stepsDone + 1
  /\ trace' = Append(trace, "timeStep++")
  /\ phase' = "Initialized" /\ ret' = 0 /\ pc' = 1
  /\ UNCHANGED <<exitStatus, logStack, qPre, r2gen, initTrace>>
  /\ UNCHANGED <<cfgVars, resVars, kspVars, opVars, flowVars, rhsVars, diag,
                 obs, sideVars>>

\* timeStep++; return 0
StepTimeReturn ==
  /\ AtStep("timeStep++")
  /\ timeStep' = timeStep + 1
  /\ stepsDone' = stepsDone + 1
  /\ trace' = Append(trace, "timeStep++")
  /\ phase' = "Initialized" /\ ret' = 0 /\ pc' = 1
  /\ UNCHANGED <<exitStatus, logStack, qPre, r2gen, initTrace>>
  /\ UNCHANGED <<cfgVars, resVars, kspVars, opVars, flowVars, rhsVars, diag,
                 obs, sideVars>>

(***************************************************************************)
(* finalize.                                                               *)
(***************************************************************************)
\* the order in which finalize tests and destroys the handles
FinalizeOrder ==
  << "pda", "uda", "vda", "wda", "qPack", "lambdaPack",
     "q", "qStar", "qxLocal", "qyLocal", "qzLocal",
     "H", "rn", "bc1", "rhs1", "temp", "lambda", "r2", "rhs2",
     "uMapping", "vMapping", "wMapping", "pMapping",
     "MHat", "RInv", "BN",
     "A", "QT", "BNQ", "QTBNQ",
     "ksp1", "ksp2" >>

FinalizePos(h) == CHOOSE i \in 1..Len(FinalizeOrder) : FinalizeOrder[i] = h

\* if(x != PETSC_NULL) {XDestroy(&x)} for each handle in turn, then the
\* performance summary (PetscViewerASCIIOpen, PetscLogView,
\* PetscViewerDestroy).  Call number failAt fails when ierr # 0; a destroy
\* that is skipped cannot fail.  XDestroy sets the handle to PETSC_NULL.
FinalizeBody(ierr, failAt) ==
  /\ (ierr # 0 /\ failAt <= Len(FinalizeOrder))
       => handles[FinalizeOrder[failAt]] # "null"
  /\ LET last == IF ierr = 0 THEN Len(FinalizeOrder) ELSE failAt - 1
         hit(h) == FinalizePos(h) <= last /\ handles[h] # "null"
     IN  /\ handles' = [h \in Handles |-> IF hit(h) THEN "null" ELSE handles[h]]
         /\ destroyed' = [h \in Handles |->
                            IF hit(h) THEN destroyed[h] + 1 ELSE destroyed[h]]
  /\ phase' = IF ierr = 0 THEN "Finalized" ELSE "Aborted"
  /\ ret' = ierr
  /\ UNCHANGED <<pc, exitStatus, logStack, created, asm>>
  /\ obs' = NoObs
  /\ UNCHANGED <<cfgVars, kspVars, opVars, flowVars, rhsVars, timeStep, diag,
                 histVars, sideVars>>

\* the driver calls finalize once the loop over stepTime has ended
Finalize(ierr, failAt) ==
  /\ phase = "Initialized"
  /\ finished
  /\ FinalizeBody(ierr, failAt)

\* finalize called on an engine in any state between two handlers: never
\* initialized, initialized, or finalized before
FinalizeAnytime(ierr, failAt) ==
  /\ phase \in {"Uninitialized", "Initialized", "Finalized"}
  /\ FinalizeBody(ierr, failAt)

(***************************************************************************)
(* countNumNonZeros.                                                       *)
(***************************************************************************)
\* the loop from index i on, with the counts d and o so far
RECURSIVE CountLoop(_, _, _, _, _, _, _)
CountLoop(c, numCols, i, rs, re, d, o) ==
  IF i > numCols THEN <<d, o>>
  ELSE IF c[i] >= rs /\ c[i] < re
         THEN CountLoop(c, numCols, i + 1, rs, re, d + 1, o)
         ELSE CountLoop(c, numCols, i + 1, rs, re, d, o + 1)

\* mutant: the row range is taken to include rowEnd
RECURSIVE CountLoopInclusive(_, _, _, _, _, _, _)
CountLoopInclusive(c, numCols, i, rs, re, d, o) ==
  IF i > numCols THEN <<d, o>>
  ELSE IF c[i] >= rs /\ c[i] <= re
         THEN CountLoopInclusive(c, numCols, i + 1, rs, re, d + 1, o)
         ELSE CountLoopInclusive(c, numCols, i + 1, rs, re, d, o + 1)

countNumNonZerosInclusive(c, numCols, rs, re) ==
  CountLoopInclusive(c, numCols, 1, rs, re, 0, 0)

\* d_nnz = 0; o_nnz = 0; for(i = 0; i < numCols; i++) ...
countNumNonZeros(c, numCols, rs, re) == CountLoop(c, numCols, 1, rs, re, 0, 0)

\* one call, for one row of a matrix under assembly
CallCountNumNonZeros(c, rs, re) ==
  /\ ~nnzDone /\ nnzDone' = TRUE
  /\ cols' = c /\ rowStart' = rs /\ rowEnd' = re
  /\ d_nnz' = countNumNonZeros(c, Len(c), rs, re)[1]
  /\ o_nnz' = countNumNonZeros(c, Len(c), rs, re)[2]
  /\ UNCHANGED <<engineVars, obs, mpiVars, meshVars>>

(***************************************************************************)
(* Several processes, each running the driver's loop over stepTime.  Only  *)
(* the control flow of a process is kept here: the data of a step is that  *)
(* of the single engine above.  KSPSolve is collective on the solver's     *)
(* communicator (PETSC_COMM_WORLD): a call returns successfully only once  *)
(* every process has made the matching call, and the convergence reason    *)
(* it leaves in the solver context is the same on every process.  Every    *)
(* other call is local, and its error code is the process's own.           *)
(***************************************************************************)
SolveStmts == {"solveIntermediateVelocity", "solvePoissonSystem"}

\* finished(), evaluated by process p on its own step counter
RankFinished(p) == rankStep[p] >= simParams.startStep + simParams.nt

RankStmt(p) == StepTimeBody[rankPc[p]]

\* mutant: the reason is taken from the process's own part of the residual
ConvergedReasonLocal(p, own) == own

\* KSPGetConvergedReason(ksp, &reason): the reason of the solve the process
\* has just taken part in; own is the process's own view, which is not used
ConvergedReason(p, own) == outcomes[entered[p]]

\* the driver of process p enters its loop, or finds it has nothing to do
RankStart(p) ==
  /\ rankState[p] = "idle"
  /\ rankStep' = [rankStep EXCEPT ![p] = simParams.startStep]
  /\ rankState' = [rankState EXCEPT ![p] =
                     IF simParams.nt <= 0 THEN "done" ELSE "running"]
  /\ UNCHANGED <<rankPc, entered, left, verdicts, outcomes>>
  /\ UNCHANGED <<engineVars, obs, nnzVars, meshVars>>

\* a statement of stepTime that is not a solve: CHKERRQ returns the error of
\* a failed call; timeStep++ ends the step and the driver tests finished()
RankStage(p, ierr) ==
  /\ rankState[p] = "running"
  /\ RankStmt(p) \notin SolveStmts
  /\ ierr # 0 => RankStmt(p) # "timeStep++"
  /\ IF ierr # 0
       THEN /\ rankState' = [rankState EXCEPT ![p] = "aborted"]
            /\ UNCHANGED <<rankPc, rankStep>>
       ELSE IF RankStmt(p) = "timeStep++"
         THEN /\ rankStep' = [rankStep EXCEPT ![p] = @ + 1]
              /\ rankPc' = [rankPc EXCEPT ![p] = 1]
              /\ rankState' = [rankState EXCEPT ![p] =
                   IF rankStep[p] + 1 >= simParams.startStep + simParams.nt
                     THEN "done" ELSE "running"]
         ELSE /\ rankPc' = [rankPc EXCEPT ![p] = @ + 1]
              /\ UNCHANGED <<rankState, rankStep>>
  /\ UNCHANGED <<entered, left, verdicts, outcomes>>
  /\ UNCHANGED <<engineVars, obs, nnzVars, meshVars>>

\* PetscLogStagePush, then the call of KSPSolve
RankEnterSolve(p, ierr) ==
  /\ rankState[p] = "running"
  /\ RankStmt(p) \in SolveStmts
  /\ IF ierr # 0
       THEN /\ rankState' = [rankState EXCEPT ![p] = "aborted"]
            /\ UNCHANGED entered
       ELSE /\ rankState' = [rankState EXCEPT ![p] = "inSolve"]
            /\ entered' = [entered EXCEPT ![p] = @ + 1]
  /\ UNCHANGED <<rankPc, rankStep, left, verdicts, outcomes>>
  /\ UNCHANGED <<engineVars, obs, nnzVars, meshVars>>

\* the next collective solve can complete: every process has called it
KSPSolveReady == \A p \in Procs : entered[p] > Len(outcomes)

\* the Krylov iteration of the next solve ends, with one reason for all
KSPSolveCollective(reason) ==
  /\ KSPSolveReady
  /\ outcomes' = Append(outcomes, reason)
  /\ UNCHANGED <<rankState, rankPc, rankStep, entered, left, verdicts>>
  /\ UNCHANGED <<engineVars, obs, nnzVars, meshVars>>

\* KSPSolve returns on process p, then PetscLogStagePop,
\* KSPGetConvergedReason and, when reason < 0, PetscPrintf and exit(0):
\* call number failAt (2..5) fails when ierr # 0
RankLeaveSolve(p, ierr, failAt, own) ==
  /\ rankState[p] = "inSolve"
  /\ entered[p] <= Len(outcomes)
  /\ LET reason == ConvergedReason(p, own)
     IN  /\ failAt = 5 => reason < 0
         /\ left' = [left EXCEPT ![p] = IF ierr = 0 \/ failAt > 2
                                          THEN @ + 1 ELSE @]
         /\ IF ierr # 0
              THEN /\ rankState' = [rankState EXCEPT ![p] = "aborted"]
                   /\ UNCHANGED <<rankPc, verdicts>>
              ELSE IF reason < 0
                THEN /\ rankState' = [rankState EXCEPT ![p] = "exited"]
                     /\ verdicts' = [verdicts EXCEPT ![p] = Append(@, "exit")]
                     /\ UNCHANGED rankPc
                ELSE /\ rankState' = [rankState EXCEPT ![p] = "running"]
                     /\ verdicts' = [verdicts EXCEPT ![p] = Append(@, "continue")]
                     /\ rankPc' = [rankPc EXCEPT ![p] = @ + 1]
  /\ UNCHANGED <<rankStep, entered, outcomes>>
  /\ UNCHANGED <<engineVars, obs, nnzVars, meshVars>>

(***************************************************************************)
(* MeshBase: destroy() and the destructor.                                 *)
(***************************************************************************)
\* DMDestroy(&h): a null handle is left alone; a live one is released and
\* nulled unless the call fails
DMDestroy(h, ierr) == IF h = "live" /\ ierr = 0 THEN "null" ELSE h

\* the caller calls destroy() on a mesh that is not being torn down
MeshDestroyCall ==
  /\ meshFn = "none" /\ ~meshGone
  /\ meshFn' = "destroy" /\ meshPc' = "reset"
  /\ meshDim0' = meshDim
  /\ UNCHANGED <<meshDim, da, UPack, meshF, meshRet, meshGone>>
  /\ UNCHANGED <<engineVars, obs, nnzVars, mpiVars>>

\* dim = -1; the containers are emptied; UN = pN = 0; info is cleared
MeshDestroyReset ==
  /\ meshFn = "destroy" /\ meshPc = "reset"
  /\ meshDim' = -1
  /\ meshF' = 0 /\ meshPc' = "loop"
  /\ UNCHANGED <<meshDim0, da, UPack, meshFn, meshRet, meshGone>>
  /\ UNCHANGED <<engineVars, obs, nnzVars, mpiVars>>

\* the mesh goes out of scope: PetscFinalized(&finalized);
\* if (finalized) return;
MeshDestructorCall(finalized) ==
  /\ meshFn = "none" /\ ~meshGone
  /\ meshDim0' = meshDim
  /\ IF finalized
       THEN meshGone' = TRUE /\ UNCHANGED <<meshFn, meshPc, meshF>>
       ELSE meshFn' = "~MeshBase" /\ meshPc' = "loop" /\ meshF' = 0
              /\ UNCHANGED meshGone
  /\ UNCHANGED <<meshDim, da, UPack, meshRet>>
  /\ UNCHANGED <<engineVars, obs, nnzVars, mpiVars>>

\* the member function running ends with error code ierr (0: normally)
MeshReturn(ierr) ==
  /\ meshFn' = "none" /\ meshPc' = "idle"
  /\ IF meshFn = "destroy"
       THEN meshRet' = ierr /\ UNCHANGED meshGone
       ELSE meshGone' = TRUE /\ UNCHANGED meshRet

\* for(int f=0; f<dim; ++f) { ierr = DMDestroy(&da[f]); CHKERRQ(ierr); }
\* one test of the loop condition and, when it holds, one iteration
MeshLoop(ierr) ==
  /\ meshFn # "none" /\ meshPc = "loop"
  /\ ierr # 0 => (meshF < meshDim /\ da[meshF] = "live")
  /\ IF meshF < meshDim
       THEN /\ da' = [da EXCEPT ![meshF] = DMDestroy(da[meshF], ierr)]
            /\ IF ierr = 0
                 THEN meshF' = meshF + 1
                        /\ UNCHANGED <<meshFn, meshPc, meshRet, meshGone>>
                 ELSE MeshReturn(ierr) /\ UNCHANGED meshF
       ELSE /\ meshPc' = "da[3]"
            /\ UNCHANGED <<da, meshF, meshFn, meshRet, meshGone>>
  /\ UNCHANGED <<meshDim, meshDim0, UPack>>
  /\ UNCHANGED <<engineVars, obs, nnzVars, mpiVars>>

\* ierr = DMDestroy(&da[3]); ierr = DMDestroy(&da[4]);
\* ierr = DMDestroy(&UPack); each followed by CHKERRQ (CHKERRV in the
\* destructor); then comm = MPI_COMM_NULL and the return
MeshDestroyDM(ierr) ==
  /\ meshFn # "none" /\ meshPc \in {"da[3]", "da[4]", "UPack"}
  /\ ierr # 0 => (IF meshPc = "da[3]" THEN da[3]
                    ELSE IF meshPc = "da[4]" THEN da[4] ELSE UPack) = "live"
  /\ da' = IF meshPc = "da[3]" THEN [da EXCEPT ![3] = DMDestroy(da[3], ierr)]
           ELSE IF meshPc = "da[4]" THEN [da EXCEPT ![4] = DMDestroy(da[4], ierr)]
           ELSE da
  /\ UPack' = IF meshPc = "UPack" THEN DMDestroy(UPack, ierr) ELSE UPack
  /\ IF ierr # 0 \/ meshPc = "UPack"
       THEN MeshReturn(ierr)
       ELSE /\ meshPc' = IF meshPc = "da[3]" THEN "da[4]" ELSE "UPack"
            /\ UNCHANGED <<meshFn, meshRet, meshGone>>
  /\ UNCHANGED <<meshDim, meshDim0, meshF>>
  /\ UNCHANGED <<engineVars, obs, nnzVars, mpiVars>>

(***************************************************************************)
(* The inputs the environment supplies, and the specifications.            *)
(***************************************************************************)
OnesQ == [i \in FluxIdx |-> 1]
IdentityQQ == [i \in FluxIdx |-> [j \in FluxIdx |-> IF i = j THEN 1 ELSE 0]]
\* the divergence stencil of one cell: outflow minus inflow
DivQT == [k \in LambdaIdx |-> [i \in FluxIdx |-> IF i = 1 THEN -1 ELSE 1]]

\* the diagonal scaling (1, 2)
RampQ == [i \in FluxIdx |-> i]

\* one flow: the control flow and the life cycle are explored in full
CtlInputs ==
  [err |-> ErrCodes, reasons |-> Reasons,
   q0 |-> {ZeroQ}, l0 |-> {ZeroL}, mh |-> {OnesQ}, ri |-> {OnesQ},
   bn |-> {OnesQ}, a |-> {IdentityQQ}, qt |-> {DivQT}, h |-> {ZeroQ},
   b |-> {ZeroQ}, x |-> {ZeroQ}, lam |-> {ZeroL}, r |-> {ZeroL}]

\* all divergence operators, solutions and residuals with entries in Vals;
\* one failing error code, one diverged and one converged reason
DataInputs ==
  [err |-> {0, 1}, reasons |-> {-1, 1},
   q0 |-> {OnesQ}, l0 |-> {ZeroL}, mh |-> {OnesQ}, ri |-> {OnesQ},
   bn |-> {RampQ}, a |-> {IdentityQQ},
   qt |-> [LambdaIdx -> VecQ(Vals)], h |-> {ZeroQ},
   b |-> {OnesQ}, x |-> VecQ(Vals), lam |-> VecL(Vals), r |-> VecL(Vals)]

InitializeActions(I) ==
  \/ Initialize
  \/ \E ierr \in I.err : CreateDMs(ierr)
  \/ \E ierr \in I.err : CreateVecs(ierr)
  \/ InitializeMeshSpacings
  \/ \E ierr \in I.err, q0 \in I.q0 : InitializeFluxes(ierr, q0)
  \/ \E ierr \in I.err, l0 \in I.l0 : InitializeLambda(ierr, l0)
  \/ \E ierr \in I.err : UpdateBoundaryGhostsInit(ierr)
  \/ \E ierr \in I.err : CreateLocalToGlobalMappingsFluxes(ierr)
  \/ \E ierr \in I.err : CreateLocalToGlobalMappingsLambda(ierr)
  \/ \E ierr \in I.err, mh \in I.mh, ri \in I.ri, bn \in I.bn :
       GenerateDiagonalMatrices(ierr, mh, ri, bn)
  \/ \E ierr \in I.err, a \in I.a : GenerateA(ierr, a)
  \/ \E ierr \in I.err, qt \in I.qt : GenerateBNQ(ierr, qt)
  \/ \E ierr \in I.err, failAt \in 1..4 : GenerateQTBNQ(ierr, failAt)
  \/ \E ierr \in I.err : CreateKSPs(ierr)
  \/ \E ierr \in I.err : SetNullSpace(ierr)
  \/ \E ierr \in I.err : PrintSimulationInfo(ierr)
  \/ \E ierr \in I.err : WriteGrid(ierr)
  \/ InitializeReturn

StepTimeActions(I) ==
  \/ StepTime
  \/ \E ierr \in I.err, h \in I.h : CalculateExplicitTerms(ierr, h)
  \/ \E ierr \in I.err : UpdateBoundaryGhosts(ierr)
  \/ \E ierr \in I.err, b \in I.b : GenerateBC1(ierr, b)
  \/ \E ierr \in I.err, failAt \in 1..2 : GenerateRHS1(ierr, failAt)
  \/ \E ierr \in I.err, failAt \in 1..5, x \in I.x, reason \in I.reasons :
       SolveIntermediateVelocity(ierr, failAt, x, reason)
  \/ \E ierr \in I.err, r \in I.r : GenerateR2(ierr, r)
  \/ \E ierr \in I.err, failAt \in 1..2 : GenerateRHS2(ierr, failAt)
  \/ \E ierr \in I.err, failAt \in 1..5, x \in I.lam, reason \in I.reasons :
       SolvePoissonSystem(ierr, failAt, x, reason)
  \/ \E ierr \in I.err, failAt \in 1..2 : ProjectionStep(ierr, failAt)
  \/ StepTimeReturn

EngineActions(I) ==
  \/ \E ierr \in I.err : PetscLogStagePush(ierr)
  \/ \E ierr \in I.err : PetscLogStagePop(ierr)
  \/ InitializeActions(I)
  \/ StepTimeActions(I)
  \/ CallSavePoint
  \/ CallFinished

\* the whole run: construction, initialize, the driver's loop, finalize
Next ==
  \/ EngineActions(CtlInputs)
  \/ \E ierr \in ErrCodes, failAt \in 1..(Len(FinalizeOrder) + 3) :
       Finalize(ierr, failAt)

Spec == Init /\ [][Next]_vars

\* one two-dimensional run up to the end of its only step, over all flow data
InitData ==
  /\ \E v \in {"plain", "ib"} :
       Constructed([startStep |-> 0, nt |-> 1, nsave |-> 1], 2, v, "null")
  /\ NnzIdle
  /\ MpiIdle
  /\ MeshConstructed(2)

NextData == EngineActions(DataInputs)

SpecData == InitData /\ [][NextData]_vars

\* countNumNonZeros on every column list and row range, whatever the outputs
\* held before
ColLists == UNION {[1..n -> -1..MaxIdx] : n \in 0..MaxCols}

InitNnz ==
  /\ Constructed([startStep |-> 0, nt |-> 1, nsave |-> 1], 2, "plain", "null")
  /\ cols = << >> /\ rowStart = 0 /\ rowEnd = 0
  /\ d_nnz \in 0..MaxCols /\ o_nnz \in 0..MaxCols
  /\ nnzDone = FALSE
  /\ MpiIdle
  /\ MeshConstructed(2)

NextNnz ==
  \E c \in ColLists, rs \in 0..MaxIdx, re \in 0..(MaxIdx + 1) :
    CallCountNumNonZeros(c, rs, re)

SpecNnz == InitNnz /\ [][NextNnz]_vars

\* a job of NumProcs processes stepping up to MaxNt times
InitMPI ==
  /\ \E nt \in 0..MaxNt :
       Constructed([startStep |-> 0, nt |-> nt, nsave |-> 1], 2, "plain", "null")
  /\ NnzIdle
  /\ MpiIdle
  /\ MeshConstructed(2)

NextMPI ==
  \/ \E p \in Procs : RankStart(p)
  \/ \E p \in Procs, ierr \in {0, 1} : RankStage(p, ierr)
  \/ \E p \in Procs, ierr \in {0, 1} : RankEnterSolve(p, ierr)
  \/ \E reason \in {-1, 1} : KSPSolveCollective(reason)
  \/ \E p \in Procs, ierr \in {0, 1}, failAt \in 2..5, own \in {-1, 1} :
       RankLeaveSolve(p, ierr, failAt, own)

SpecMPI == InitMPI /\ [][NextMPI]_vars

\* the engine with finalize called at any point of its life, and again
NextTeardown ==
  \/ EngineActions(CtlInputs)
  \/ \E ierr \in ErrCodes, failAt \in 1..(Len(FinalizeOrder) + 3) :
       FinalizeAnytime(ierr, failAt)

SpecTeardown == Init /\ [][NextTeardown]_vars

\* a mesh of two or three dimensions, destroyed any number of times and
\* then destructed
InitMesh ==
  /\ Constructed([startStep |-> 0, nt |-> 1, nsave |-> 1], 2, "plain", "null")
  /\ NnzIdle
  /\ MpiIdle
  /\ \E d \in {2, 3} : MeshConstructed(d)

NextMesh ==
  \/ MeshDestroyCall
  \/ MeshDestroyReset
  \/ \E finalized \in BOOLEAN : MeshDestructorCall(finalized)
  \/ \E ierr \in ErrCodes : MeshLoop(ierr)
  \/ \E ierr \in ErrCodes : MeshDestroyDM(ierr)

SpecMesh == InitMesh /\ [][NextMesh]_vars

\* the driver as a sequential program: it runs initialize, the loop over
\* stepTime and finalize, and keeps executing while it has a statement to
\* execute; the observers alone do not count as progress
InitLoop ==
  /\ \E sp \in SimParamsSet : Constructed(sp, 2, "plain", "null")
  /\ NnzIdle
  /\ MpiIdle
  /\ MeshConstructed(2)

DriverStep ==
  \/ \E ierr \in ErrCodes : PetscLogStagePush(ierr)
  \/ \E ierr \in ErrCodes : PetscLogStagePop(ierr)
  \/ InitializeActions(CtlInputs)
  \/ StepTimeActions(CtlInputs)

SpecLoop == InitLoop /\ [][Next]_vars /\ WF_vars(DriverStep)

\* two steps of an immersed-boundary solver, whose r2 is not zero
TwoStepInputs ==
  [err |-> {0, 1}, reasons |-> {-1, 1},
   q0 |-> {OnesQ}, l0 |-> {ZeroL}, mh |-> {OnesQ}, ri |-> {OnesQ},
   bn |-> {OnesQ}, a |-> {IdentityQQ}, qt |-> {DivQT}, h |-> {ZeroQ},
   b |-> {ZeroQ}, x |-> {OnesQ, RampQ}, lam |-> {ZeroL}, r |-> VecL(Vals)]

InitTwoSteps ==
  /\ Constructed([startStep |-> 0, nt |-> 2, nsave |-> 1], 2, "ib", "null")
  /\ NnzIdle
  /\ MpiIdle
  /\ MeshConstructed(2)

NextTwoSteps == EngineActions(TwoStepInputs)

SpecTwoSteps == InitTwoSteps /\ [][NextTwoSteps]_vars

(***************************************************************************)
(* Properties.                                                             *)
(***************************************************************************)
Range(f) == {f[i] : i \in DOMAIN f}
Last(f) == f[Len(f)]
IsPrefix(s, t) == Len(s) <= Len(t) /\ \A i \in 1..Len(s) : s[i] = t[i]
Abs(n) == IF n >= 0 THEN n ELSE 0 - n
IsMultiple(t, m) == \E j \in (0 - Abs(t))..Abs(t) : t = j * m

\* the order of the stages of one step
StageOrder ==
  << "calculateExplicitTerms", "updateBoundaryGhosts", "generateBC1",
     "generateRHS1", "solveIntermediateVelocity", "generateR2",
     "generateRHS2", "solvePoissonSystem", "projectionStep", "timeStep++" >>

\* the stages the running (or last) stepTime has executed, log-stage
\* bookkeeping left out
StagesRun == SelectSeq(trace, LAMBDA st : st \in StageNames)

\* C1: the stages a call of stepTime has executed are always an initial part
\* of the fixed order (explicit terms, ghosts, BC1, RHS1, solve 1, R2, RHS2,
\* solve 2, projection, counter), so each runs at most once and in order; a
\* call that has completed has executed all of them; and the step counter
\* counts exactly the completed calls, so it moves only after the projection.
C1_StageOrder ==
  /\ IsPrefix(StagesRun, StageOrder)
  /\ (phase = "Initialized" /\ stepsDone > 0) => StagesRun = StageOrder
  /\ (phase = "StepInProgress") => "timeStep++" \notin Range(trace)
  /\ timeStep = simParams.startStep + stepsDone

C1_Witness ==
  /\ phase = "Initialized" /\ stepsDone = 2 /\ StagesRun = StageOrder

\* C2: with nt = k >= 0, finished() is true exactly when the step counter is
\* startStep + k, i.e. after exactly k completed steps, and false before.
C2_Finished ==
  simParams.nt >= 0 =>
    /\ finished <=> (timeStep = simParams.startStep + simParams.nt)
    /\ (timeStep < simParams.startStep + simParams.nt) => ~finished
    /\ obs.op = "finished" => (obs.result <=> (stepsDone = simParams.nt))

C2_Witness ==
  /\ obs.op = "finished" /\ obs.result
  /\ simParams.nt = 2 /\ stepsDone = 2 /\ simParams.startStep = 1

\* C3: a call of savePoint() returns true exactly when the step counter is a
\* multiple of nsave (0 and negative multiples included), and it changes
\* nothing the engine owns.
C3_SavePoint ==
  [][(obs' # obs /\ obs'.op = "savePoint") =>
       /\ obs'.result <=> IsMultiple(timeStep, simParams.nsave)
       /\ engineVars' = engineVars]_vars

C3_Witness ==
  /\ obs.op = "savePoint" /\ obs.result
  /\ timeStep = 2 /\ simParams.nsave = 2 /\ stepsDone = 1

\* a solve has reported a negative convergence reason
Diverged == ksp1.reason < 0 \/ ksp2.reason < 0

C4_State ==
  Diverged =>
    /\ phase \in {"Exited", "Aborted"}
    /\ ksp1.reason < 0 =>
         /\ Last(trace) = "solveIntermediateVelocity"
         /\ Range(trace) \cap {"generateR2", "generateRHS2",
                               "solvePoissonSystem", "projectionStep",
                               "timeStep++"} = {}
    /\ ksp1.reason >= 0 =>
         /\ Last(trace) = "solvePoissonSystem"
         /\ Range(trace) \cap {"projectionStep", "timeStep++"} = {}
    /\ q = qPre
    /\ timeStep = simParams.startStep + stepsDone

\* C4: once a solve has reported a negative reason the run is over: the
\* diverged solve is the last stage that ran (after System 1 no generateR2,
\* generateRHS2, System 2 solve or projection; after System 2 no projection),
\* q is what it was when the step began, the step counter has not moved, and
\* no further step of the run is ever taken.
C4_DivergenceIsTerminal == [](C4_State) /\ [][~Diverged]_vars

C4_Witness ==
  /\ phase = "Exited" /\ diag.system = "Poisson"
  /\ qStar # qPre /\ lambda # ZeroL /\ BNQ # ZeroQL

\* C5 as stated: the diagnostic carries the reason code and the step index.
C5_ReasonAndStep ==
  phase = "Exited" =>
    /\ "reason" \in DOMAIN diag
    /\ "step" \in DOMAIN diag
    /\ diag.step = timeStep

\* C5 (amended): on divergence the diagnostic names the system whose solve
\* diverged and carries that solver's negative convergence-reason code, and
\* nothing else: it carries no step index.  A diagnostic is written only on
\* divergence.
C5_ReasonOnly ==
  /\ diag # NoDiag => phase = "Exited"
  /\ phase = "Exited" =>
       /\ DOMAIN diag = {"system", "reason"}
       /\ diag.reason < 0
       /\ \/ /\ diag.system = "Velocity"
             /\ diag.reason = ksp1.reason
             /\ Last(trace) = "solveIntermediateVelocity"
          \/ /\ diag.system = "Poisson"
             /\ diag.reason = ksp2.reason
             /\ Last(trace) = "solvePoissonSystem"

C5_Witness ==
  /\ phase = "Exited" /\ diag.system = "Poisson" /\ stepsDone = 1
  /\ timeStep = 1 /\ diag.reason = -1

\* the projection of the running (or last) stepTime has been carried out
Projected ==
  /\ "projectionStep" \in Range(trace)
  /\ ~(phase = "Aborted" /\ Last(trace) = "projectionStep")

\* C6: if the lambda that the System 2 solve returned satisfies
\* QTBNQ lambda = rhs2 exactly, then after the projection QT q equals the r2
\* that generateR2 produced in that step, which is zero for the plain solver.
C6_ProjectionSatisfiesConstraint ==
  /\ (Projected /\ MatMult(QTBNQ, lambda) = rhs2) => MatMult(QT, q) = r2gen
  /\ variant = "plain" => r2gen = ZeroL

C6_Witness ==
  /\ Projected /\ MatMult(QTBNQ, lambda) = rhs2
  /\ r2gen # ZeroL /\ lambda # ZeroL /\ q # qStar /\ q # qPre

\* C7: in a step, projectionStep is the only stage that writes q: when it
\* succeeds q becomes qStar - BNQ lambda, and it leaves qStar, lambda and BNQ
\* as they were; every other stage, and the observers, leave q unchanged.
C7_OnlyProjectionWritesQ ==
  [][IF AtStep("projectionStep")
       THEN /\ qStar' = qStar /\ lambda' = lambda /\ BNQ' = BNQ
            /\ phase' = "StepInProgress" =>
                 q' = [i \in FluxIdx |->
                         qStar[i] - SumOver([k \in LambdaIdx |->
                                               BNQ[i][k] * lambda[k]], LambdaIdx)]
            /\ phase' # "StepInProgress" => q' = q
       ELSE phase \in {"StepInProgress", "Initialized"} => q' = q]_vars

C7_Witness ==
  /\ Projected /\ q # qPre /\ q # qStar /\ obs.op = "savePoint"

InRange(c, rs, re) == {i \in 1..Len(c) : c[i] >= rs /\ c[i] < re}

\* C8: a call of countNumNonZeros has left in d_nnz the number of entries of
\* cols inside [rowStart, rowEnd) and in o_nnz the number outside, whatever
\* the two held before; they add up to numCols, and d_nnz is 0 for an empty
\* list or an empty range.
C8_CountNumNonZeros ==
  nnzDone =>
    /\ d_nnz = Cardinality(InRange(cols, rowStart, rowEnd))
    /\ o_nnz = Len(cols) - Cardinality(InRange(cols, rowStart, rowEnd))
    /\ d_nnz + o_nnz = Len(cols)
    /\ (Len(cols) = 0 \/ rowEnd <= rowStart) => d_nnz = 0

C8_Witness ==
  /\ nnzDone /\ Len(cols) = 3 /\ d_nnz = 2 /\ o_nnz = 1 /\ rowStart = 1 /\ rowEnd = 3

\* initialize has completed
PostInit == phase \in {"Initialized", "StepInProgress", "Exited", "Finalized"}

AssembledOnce ==
  PostInit =>
    /\ \A o \in Operators : asm[o] = 1 /\ created[o] = 1
    /\ created["ksp1"] = 1 /\ created["ksp2"] = 1
    /\ ksp1.operator = "A" /\ ksp2.operator = "QTBNQ" /\ ksp2.nullspace

\* what createKSPs and setNullSpace configure in a solver context
KspConfig(k) == [operator |-> k.operator, nullspace |-> k.nullspace]

\* C9 as stated: after initialize nothing modifies the operators, the
\* diagonal vectors or the solver contexts.
C9_NothingModified ==
  /\ [](AssembledOnce)
  /\ [][PostInit => UNCHANGED <<opVars, asm, created, ksp1, ksp2>>]_vars

\* C9 (amended): each operator, diagonal vector and solver context is
\* assembled exactly once, during initialize; afterwards no operator or
\* diagonal vector is modified, and no solver context is re-created or
\* re-configured (its operator and null space stay); but each solve stores its
\* convergence reason in its solver context.
C9_AssembledOnceOperatorsFrozen ==
  /\ [](AssembledOnce)
  /\ [][PostInit =>
          /\ UNCHANGED <<opVars, asm, created>>
          /\ KspConfig(ksp1') = KspConfig(ksp1)
          /\ KspConfig(ksp2') = KspConfig(ksp2)
          /\ ksp1' # ksp1 => AtStep("solveIntermediateVelocity")
          /\ ksp2' # ksp2 => AtStep("solvePoissonSystem")]_vars

C9_Witness ==
  /\ phase = "Initialized" /\ stepsDone = 2
  /\ ksp1.reason = 1 /\ ksp2.reason = 1 /\ QTBNQ # ZeroLL

\* C10 as stated: when the run has ended, by finalize or by the termination
\* on divergence, no handle created by initialize is still live.
C10_ReleasedOnEveryExit ==
  phase \in {"Finalized", "Exited"} => \A h \in Handles : handles[h] # "live"

C12_GenerateRHS2 ==
  [][(AtStep("generateRHS2") /\ pc' = pc + 1) =>
       /\ rhs2' = [k \in LambdaIdx |->
                     SumOver([i \in FluxIdx |-> QT[k][i] * qStar[i]], FluxIdx)
                       - r2[k]]
       /\ QT' = QT /\ qStar' = qStar]_vars

\* QT = (1 1), qStar = (1, 1), r2 = (-1) on entry: rhs2 = (3)
C12_Witness ==
  /\ phase = "StepInProgress" /\ trace # << >> /\ Last(trace) = "generateRHS2"
  /\ QT[1] = OnesQ /\ qStar = OnesQ /\ r2gen[1] = -1 /\ rhs2[1] = 3

\* C13: if a stage of stepTime returns a non-zero error code, stepTime
\* returns that error immediately: no later stage of the step runs, the step
\* counter is not advanced, nothing is retried, and q is unchanged unless
\* the failing stage is projectionStep itself.  (The same holds when one of
\* the profiling calls between the stages fails, except that q then holds
\* what the stages before it left.)
C13_ErrorPropagation ==
  /\ [](ret # 0 => phase = "Aborted")
  /\ [][(phase = "StepInProgress" /\ phase' = "Aborted") =>
          /\ ret' # 0
          /\ timeStep' = timeStep /\ stepsDone' = stepsDone
          /\ timeStep' = simParams.startStep + stepsDone'
          /\ trace' \in {trace, Append(trace, Stmt)}
          /\ \A i, j \in 1..Len(trace') : trace'[i] = trace'[j] => i = j
          /\ q' # q => Stmt = "projectionStep"
          /\ (Stmt \in StageNames \ {"projectionStep"}) => q' = qPre]_vars
  /\ [][phase # "Aborted"]_vars

\* the second solve returned an error code after the first had produced
\* an intermediate velocity that differs from q
C13_Witness ==
  /\ phase = "Aborted" /\ ret = 1
  /\ trace # << >> /\ Last(trace) = "solvePoissonSystem"
  /\ q = OnesQ /\ qStar = ZeroQ /\ timeStep = 0

\* statement a has succeeded before every success of statement b
Before(a, b) ==
  \A j \in 1..Len(initTrace) :
    initTrace[j] = b => \E i \in 1..(j - 1) : initTrace[i] = a

Times(a) == Cardinality({i \in 1..Len(initTrace) : initTrace[i] = a})

BuildsOperator == {"generateDiagonalMatrices", "generateA", "generateBNQ",
                   "generateQTBNQ"}

\* C14: during initialize the set-up runs in dependency order, each action
\* exactly once: the vectors are created and q and lambda populated before
\* any operator is built; the diagonal operators and A are generated before
\* BNQ; QTBNQ is computed only after QT and BNQ exist; the solver contexts
\* are created only after QTBNQ exists; the null space is attached exactly
\* once, after the solver contexts are created and before the first step;
\* and a failure in any action stops initialization.
C14_State ==
  /\ \A a \in Range(InitializeBody) : Times(a) <= 1
  /\ PostInit => \A a \in Range(InitializeBody) \ {"push:initialize", "pop",
                                                    "return"} : Times(a) = 1
  /\ \A b \in BuildsOperator :
       /\ Before("createVecs", b)
       /\ Before("initializeFluxes", b)
       /\ Before("initializeLambda", b)
  /\ Before("generateDiagonalMatrices", "generateBNQ")
  /\ Before("generateA", "generateBNQ")
  /\ Before("generateBNQ", "generateQTBNQ")
  /\ Times("generateQTBNQ") = 1 =>
       created["QT"] = 1 /\ created["BNQ"] = 1 /\ asm["QT"] = 1
         /\ asm["BNQ"] = 1
  /\ Before("generateQTBNQ", "createKSPs")
  /\ Times("createKSPs") = 1 => created["QTBNQ"] = 1 /\ asm["QTBNQ"] = 1
  /\ Before("createKSPs", "setNullSpace")
  /\ Times("setNullSpace") = 1 <=> ksp2.nullspace
  /\ ksp2.nullspace => created["ksp2"] = 1
  /\ (stepsDone > 0 \/ phase = "StepInProgress") => Times("setNullSpace") = 1

C14_InitializeInDependencyOrder ==
  /\ [](C14_State)
  /\ [][(phase = "Initializing" /\ phase' = "Aborted") =>
          (initTrace' = initTrace /\ ret' # 0)]_vars
  /\ [][phase = "Aborted" => initTrace' = initTrace]_vars

\* initialize has returned 0 and a step is under way
C14_Witness ==
  /\ phase = "StepInProgress" /\ Len(initTrace) = 16
  /\ ksp2.nullspace /\ ksp2.operator = "QTBNQ"

\* C15: finalize destroys every handle the engine holds that is non-null
\* and skips every handle that is null, so that after a successful finalize
\* no handle created by initialize is still live, no handle is destroyed
\* twice (also when finalize is called a second time), and finalize on a
\* constructed but never initialized engine destroys nothing.
\* Violated: lambda is not set to PETSC_NULL by the constructor, so finalize
\* on a never initialized engine may pass an indeterminate lambda to
\* VecDestroy.
C15_FinalizeDestroysWhatIsLive ==
  /\ \A h \in Handles : destroyed[h] <= created[h]
  /\ phase = "Finalized" => \A h \in Handles : handles[h] = "null"
  /\ (phase = "Finalized" /\ initTrace = << >>) =>
       \A h \in Handles : destroyed[h] = 0

\* the changes of state of the engine: its life cycle, and the two ways a
\* handler can end the run (an error code returned, exit(0))
LifeCycle ==
  { <<"Uninitialized", "Initializing">>, <<"Initializing", "Initialized">>,
    <<"Initialized", "StepInProgress">>, <<"StepInProgress", "Initialized">>,
    <<"Initialized", "Finalized">> }
  \cup { <<"Initializing", "Aborted">>, <<"StepInProgress", "Aborted">>,
         <<"Initialized", "Aborted">>, <<"StepInProgress", "Exited">> }

\* C16: the engine moves through its states only in the order
\* Uninitialized, Initialized, zero or more StepInProgress, Finalized: the
\* stages of stepTime never execute on an engine whose initialize has not
\* completed or whose finalize has already run, and initialize is never
\* re-entered after stepping has begun.
C16_LifeCycle ==
  /\ [](phase = "StepInProgress" =>
          /\ Len(initTrace) = Len(InitializeBody) - 3
          /\ \A h \in Handles : destroyed[h] = 0)
  /\ [](phase \in {"Uninitialized", "Initializing"} =>
          stepsDone = 0 /\ trace = << >>)
  /\ [][phase' # phase => <<phase, phase'>> \in LifeCycle]_vars
  /\ [][trace' # trace => phase' = "StepInProgress" \/ phase = "StepInProgress"]_vars
  /\ [][initTrace' # initTrace => phase = "Initializing" /\ stepsDone = 0]_vars
  /\ [][phase = "Finalized" => UNCHANGED engineVars]_vars

\* the engine has been finalized after two steps
C16_Witness ==
  /\ phase = "Finalized" /\ stepsDone = 2
  /\ \A h \in Handles : handles[h] = "null"

\* C17: MeshBase::destroy() releases every DM the mesh holds: da[f] for
\* every f from 0 to dim-1, with dim the dimension of the mesh before the
\* call, as well as da[3], da[4] and UPack; after destroy() has returned
\* successfully none of them is still live.
\* Violated: destroy() sets dim = -1 before its loop over f < dim.
C17_DestroyReleasesAll ==
  (meshFn = "none" /\ meshRet = 0) =>
    /\ \A f \in 0..(meshDim0 - 1) : da[f] # "live"
    /\ da[3] # "live" /\ da[4] # "live" /\ UPack # "live"

Max(a, b) == IF a >= b THEN a ELSE b

\* the loop has ended after exactly max(nt, 0) completed steps
LoopEnded ==
  /\ phase = "Initialized" /\ finished
  /\ stepsDone = Max(simParams.nt, 0)

\* C18: a driver loop that calls stepTime while finished() is false
\* terminates after exactly max(nt, 0) completed steps when no solve
\* diverges and no stage fails, and in every reachable state the step
\* counter equals startStep plus the number of completed steps: it never
\* decreases and changes only at the end of a completed step.
C18_LoopTerminates ==
  /\ <>(LoopEnded \/ phase \in {"Aborted", "Exited"})
  /\ []((phase \in {"Initialized", "Finalized"} /\ finished) =>
          stepsDone = Max(simParams.nt, 0))
  /\ [](timeStep = simParams.startStep + stepsDone)
  /\ [][timeStep' # timeStep =>
          /\ timeStep' = timeStep + 1
          /\ AtStep("timeStep++") /\ phase' = "Initialized"
          /\ Len(StagesRun) = Cardinality(StageNames) - 1]_vars
  /\ [][finished => phase' # "StepInProgress"]_vars

\* the loop has ended after two steps from step 1
C18_Witness ==
  /\ LoopEnded /\ stepsDone = 2 /\ timeStep = 3
  /\ simParams.startStep = 1 /\ simParams.nt = 2

Neg(x) == [k \in DOMAIN x |-> 0 - x[k]]
QTqStar == [k \in LambdaIdx |->
              SumOver([i \in FluxIdx |-> QT[k][i] * qStar[i]], FluxIdx)]

\* generateRHS2 has returned 0 in the running step
RHS2Done == phase = "StepInProgress" /\ "generateRHS2" \in Range(trace)

\* C19: generateRHS2 negates r2 in place, so on return r2 holds the
\* negation of the residual that generateR2 produced; within stepTime
\* generateR2 always runs between two consecutive generateRHS2 calls, so the
\* sign flip never carries into the next step's rhs2 (calling generateRHS2
\* again without regenerating r2 would instead give rhs2 = QT qStar + r2).
C19_State ==
  /\ RHS2Done => r2 = Neg(r2gen)
  /\ (RHS2Done /\ Last(trace) = "generateRHS2") =>
       /\ rhs2 = [k \in LambdaIdx |-> QTqStar[k] - r2gen[k]]
       /\ generateRHS2(QT, qStar, r2).rhs2 =
            [k \in LambdaIdx |-> QTqStar[k] + r2gen[k]]

C19_NegatesInPlace ==
  /\ [](C19_State)
  /\ [][AtStep("generateRHS2") =>
          /\ trace # << >> /\ Last(trace) = "generateR2"
          /\ r2 = r2gen
          /\ r2' \in {r2, Neg(r2)}
          /\ pc' = pc + 1 => r2' = Neg(r2)]_vars
  /\ [][(r2gen' # r2gen \/ (AtStep("generateR2") /\ pc' = pc + 1)) =>
          r2' = r2gen']_vars

\* in the second step generateR2 produced (1) after the first step had left
\* (1) in r2, the negation of its residual (-1); rhs2 = QT qStar - (1)
C19_Witness ==
  /\ stepsDone = 1 /\ RHS2Done /\ Last(trace) = "generateRHS2"
  /\ r2gen[1] = 1 /\ r2[1] = -1
  /\ qStar = RampQ /\ rhs2[1] = 0

\* C20: when a linear solve diverges the process ends with exit status 0,
\* the status of a run that completes normally, and stepTime never returns
\* an error value to its caller for a divergence; a failure of the solve
\* call itself (a non-zero error code) is instead returned to the caller
\* without terminating the process.
C20_State ==
  /\ phase = "Exited" =>
       /\ exitStatus = 0 /\ ret = 0
       /\ Diverged /\ diag # NoDiag /\ diag.reason < 0
  /\ phase # "Exited" => exitStatus = -1 /\ diag = NoDiag
  /\ phase = "Aborted" => ret # 0

C20_ExitStatusOnDivergence ==
  /\ [](C20_State)
  /\ [][(Stmt \in SolveStmts /\ phase' # phase) =>
          \/ /\ phase' = "Exited" /\ Diverged'
             /\ exitStatus' = 0 /\ ret' = ret
          \/ /\ phase' = "Aborted" /\ ret' # 0 /\ exitStatus' = -1]_vars
  /\ [][phase' = "Exited" => (Stmt \in SolveStmts /\ ~Diverged)]_vars

\* the second solve of the first step has diverged with reason -1 and the
\* process has exited with status 0
C20_Witness ==
  /\ phase = "Exited" /\ exitStatus = 0 /\ ret = 0
  /\ ksp2.reason = -1 /\ ksp1.reason = 1 /\ diag.system = "Poisson"

=============================================================================
